---- MODULE Spec2Model ----
(***************************************************************************)
(* The page-interaction layer: four browser scripts attached to one        *)
(* document.                                                               *)
(*   theme script (src/unnamed/part_000)  toggles data-theme, writes cookie *)
(*   weather.js                            one fetch of /api/weather        *)
(*   news.js                               window.open on card click        *)
(*   effects.js                            cursor-effect follows the mouse  *)
(* The browser runs one task at a time: every action below is one script   *)
(* evaluation, one event handler, or one continuation of loadWeather after *)
(* an await.                                                               *)
(***************************************************************************)
EXTENDS Naturals, Sequences, FiniteSets, TLC

(* ------------------------------------------------------------------ *)
(* Bounds of the model                                                 *)
(* ------------------------------------------------------------------ *)
MaxThemeClicks == 2
MaxCardClicks == 2

(* ------------------------------------------------------------------ *)
(* JavaScript values                                                   *)
(* ------------------------------------------------------------------ *)
\* The value of a missing attribute / dataset entry / style property.
Undefined == "<undefined>"

\* ToBoolean on a string-or-undefined value: undefined and "" are falsy.
Truthy(v) == v # Undefined /\ v # ""

\* a || b
Or(a, b) == IF Truthy(a) THEN a ELSE b

Digit == <<"0", "1", "2", "3", "4", "5", "6", "7", "8", "9">>

\* Number-to-string of a non-negative integer, as a template literal does it.
RECURSIVE NatToStr(_)
NatToStr(n) ==
    IF n < 10 THEN Digit[n + 1]
    ELSE NatToStr(n \div 10) \o Digit[(n % 10) + 1]

\* JSON values as resp.json() yields them.
JStr(s) == [kind |-> "string", str |-> s]
JNum(n) == [kind |-> "number", num |-> n]
JNull == [kind |-> "null"]
JUndefined == [kind |-> "undefined"]
JObj(f) == [kind |-> "object", fields |-> f]

\* `${v}` : the string a template literal makes of a value.
TemplateString(v) ==
    CASE v.kind = "string" -> v.str
      [] v.kind = "number" -> NatToStr(v.num)
      [] v.kind = "null" -> "null"
      [] v.kind = "undefined" -> "undefined"
      [] v.kind = "object" -> "[object Object]"

\* data.title : a property read throws on null, yields undefined when the
\* property is missing.
ReadThrows(data) == data.kind \in {"null", "undefined"}
GetTitle_WholeBody(data) == data
GetTitle(data) ==
    IF data.kind = "object" /\ "title" \in DOMAIN data.fields
    THEN data.fields.title
    ELSE JUndefined

(* ------------------------------------------------------------------ *)
(* The environment: the document and the network                        *)
(* ------------------------------------------------------------------ *)
ElementIds == {"theme-toggle", "weather-chip", "cursor-effect"}

\* Values the server template may have put in <html data-theme=...>.
ThemeAttrValues == {Undefined, "", "dark", "light", "auto"}

\* The .news-card elements of the page and the data-url each may carry.
Cards == {"card1", "card2"}
CardUrl(c) == IF c = "card1" THEN "https://example.com" ELSE "https://example.org/story"
CardUrlValues(c) == {Undefined, "", CardUrl(c)}

\* Text the template put in the weather chip before any script ran.
InitialChipText == "..."

\* Bodies /api/weather may answer with.
Bodies ==
    { JObj([title |-> JStr("Sunny")]),
      JObj([title |-> JNum(21)]),
      JObj([temp |-> JNum(21)]),
      JNull }

\* Pointer positions of mousemove events (pageX, pageY).
Pointers == {<<120, 340>>, <<0, 7>>}

Scripts == {"theme", "weather", "news", "effects"}

VARIABLES
    dom,            \* ids of the elements present in the document
    windowW,        \* whether the global scope has a binding named w
    cards,          \* card -> its data-url (Undefined when it has none)
    evaluated,      \* scripts whose top level has run
    domLoaded,      \* DOMContentLoaded has been dispatched
    dclListeners,   \* listeners registered for DOMContentLoaded
    toggleListener, \* the click listener on #theme-toggle is attached
    moveListener,   \* the mousemove listener on document is attached
    cardHandlers,   \* cards with a click listener attached
    themeAttr,      \* document.documentElement.dataset.theme
    cookieWritten,  \* the last string assigned to document.cookie
    themeLog,       \* history: themeAttr at load and after each click
    wpc,            \* where loadWeather stands
    fetchCount,     \* requests issued to /api/weather
    resp,           \* what the fetch settled with
    data,           \* what resp.json() settled with
    chipText,       \* textContent of #weather-chip
    consoleErrors,  \* console.error calls
    cardClicks,     \* history: the cards whose click handler ran, in order
    openCalls,      \* window.open calls, in order
    circleStyle,    \* style.left / style.top of #cursor-effect
    lastMove,       \* history: the pointer of the last mousemove handled
    uncaught        \* exceptions that left a script or a handler uncaught

envVars == <<dom, windowW, cards>>
loadVars == <<evaluated, domLoaded, dclListeners>>
themeVars == <<toggleListener, themeAttr, cookieWritten, themeLog>>
weatherVars == <<wpc, fetchCount, resp, data, chipText, consoleErrors>>
newsVars == <<cardHandlers, cardClicks, openCalls>>
effectVars == <<moveListener, circleStyle, lastMove>>
vars == <<envVars, loadVars, themeVars, weatherVars, newsVars, effectVars, uncaught>>

\* document.getElementById(id): the element, or null.
getElementById(id) == id \in dom

NoResp == [settled |-> "pending", ok |-> FALSE]
NoStyle == [left |-> "", top |-> ""]

Init ==
    /\ dom \in SUBSET ElementIds
    /\ windowW \in BOOLEAN
    /\ cards \in {f \in [Cards -> UNION {CardUrlValues(c) : c \in Cards}] :
                     \A c \in Cards : f[c] \in CardUrlValues(c)}
    /\ evaluated = {}
    /\ domLoaded = FALSE
    /\ dclListeners = {}
    /\ toggleListener = FALSE
    /\ moveListener = FALSE
    /\ cardHandlers = {}
    /\ themeAttr \in ThemeAttrValues
    /\ cookieWritten = Undefined
    /\ themeLog = <<themeAttr>>
    /\ wpc = "unloaded"
    /\ fetchCount = 0
    /\ resp = NoResp
    /\ data = JUndefined
    /\ chipText = InitialChipText
    /\ consoleErrors = <<>>
    /\ cardClicks = <<>>
    /\ openCalls = <<>>
    /\ circleStyle = NoStyle
    /\ lastMove = <<>>
    /\ uncaught = {}

(* ------------------------------------------------------------------ *)
(* Theme toggle (src/unnamed/part_000)                                 *)
(* ------------------------------------------------------------------ *)
\* The fallback of `dataset.theme || "dark"`.
DefaultTheme_Light == "light"
DefaultTheme == "dark"

\* const next = current === "dark" ? "light" : "dark";
NextTheme_AlwaysLight(current) == "light"
NextTheme(current) == IF current = "dark" THEN "light" ELSE "dark"

\* `theme=${next};path=/;max-age=31536000;Secure;SameSite=Lax`
ThemeCookie_Spaced(next) == "theme=" \o next \o "; path=/; max-age=31536000; Secure; SameSite=Lax"
ThemeCookie(next) == "theme=" \o next \o ";path=/;max-age=31536000;Secure;SameSite=Lax"

\* The IIFE: guard-and-return, else attach the click listener.
ThemeScript ==
    /\ "theme" \notin evaluated
    /\ ~domLoaded
    /\ evaluated' = evaluated \cup {"theme"}
    /\ toggleListener' = getElementById("theme-toggle")
    /\ UNCHANGED <<envVars, domLoaded, dclListeners, themeAttr, cookieWritten, themeLog,
                   weatherVars, newsVars, effectVars, uncaught>>

\* A click handler that also labels the weather chip with the new theme.
ThemeClick_WritesChip ==
    /\ toggleListener
    /\ Len(themeLog) <= MaxThemeClicks
    /\ LET current == Or(themeAttr, DefaultTheme)
           next == NextTheme(current)
       IN /\ themeAttr' = next
          /\ cookieWritten' = ThemeCookie(next)
          /\ themeLog' = Append(themeLog, next)
          /\ chipText' = IF getElementById("weather-chip") THEN next ELSE chipText
    /\ UNCHANGED <<envVars, loadVars, toggleListener, wpc, fetchCount, resp, data,
                   consoleErrors, newsVars, effectVars, uncaught>>

\* The click handler of #theme-toggle.
ThemeClick ==
    /\ toggleListener
    /\ Len(themeLog) <= MaxThemeClicks
    /\ LET current == Or(themeAttr, DefaultTheme)
           next == NextTheme(current)
       IN /\ themeAttr' = next
          /\ cookieWritten' = ThemeCookie(next)
          /\ themeLog' = Append(themeLog, next)
    /\ UNCHANGED <<envVars, loadVars, toggleListener, weatherVars, newsVars, effectVars, uncaught>>

(* ------------------------------------------------------------------ *)
(* Weather chip (src/app/static/js/weather.js)                         *)
(* ------------------------------------------------------------------ *)
Rejected == [settled |-> "rejected", ok |-> FALSE]
Resolved(ok) == [settled |-> "resolved", ok |-> ok]

\* What resp.json() rejects with when the body is not JSON.
SyntaxError == [kind |-> "SyntaxError"]

\* Top level of weather.js: declare loadWeather, register it.
WeatherScript ==
    /\ "weather" \notin evaluated
    /\ ~domLoaded
    /\ evaluated' = evaluated \cup {"weather"}
    /\ dclListeners' = dclListeners \cup {"loadWeather"}
    /\ wpc' = "registered"
    /\ UNCHANGED <<envVars, domLoaded, themeVars, fetchCount, resp, data, chipText,
                   consoleErrors, newsVars, effectVars, uncaught>>

\* loadWeather up to its first await: fetch("/api/weather") is called.
loadWeather ==
    /\ wpc' = "awaitFetch"
    /\ fetchCount' = fetchCount + 1
    /\ UNCHANGED <<resp, data, chipText, consoleErrors>>

\* A catch block that logs and then calls loadWeather again.
Catch_Retry(err) ==
    /\ consoleErrors' = Append(consoleErrors, <<"Weather fetch failed:", err>>)
    /\ wpc' = "awaitFetch"
    /\ fetchCount' = fetchCount + 1
    /\ UNCHANGED uncaught

\* catch (err) { console.error("Weather fetch failed:", err); }
Catch(err) ==
    /\ consoleErrors' = Append(consoleErrors, <<"Weather fetch failed:", err>>)
    /\ wpc' = "done"
    /\ UNCHANGED <<fetchCount, uncaught>>

\* if (!resp.ok) throw new Error(resp.status);
StatusCheck_Throws(ok) ==
    IF ~ok
    THEN Catch("Error: bad status")
    ELSE /\ wpc' = "awaitJson"
         /\ UNCHANGED <<fetchCount, consoleErrors, uncaught>>

\* if (!resp.ok) return;  else resp.json() is called and awaited.
StatusCheck(ok) ==
    /\ wpc' = IF ~ok THEN "done" ELSE "awaitJson"
    /\ UNCHANGED <<fetchCount, consoleErrors, uncaught>>

\* el.textContent = `${data.title}` with no `if (el)` in front.
WriteChip_NoGuard(body) ==
    IF ReadThrows(body)
    THEN Catch("TypeError") /\ UNCHANGED chipText
    ELSE /\ chipText' = TemplateString(GetTitle(body))
         /\ wpc' = "done"
         /\ UNCHANGED <<fetchCount, consoleErrors, uncaught>>

\* const el = document.getElementById("weather-chip");
\* if (el) el.textContent = `${data.title}`;
WriteChip(body) ==
    IF getElementById("weather-chip")
    THEN IF ReadThrows(body)
         THEN Catch("TypeError") /\ UNCHANGED chipText
         ELSE /\ chipText' = TemplateString(GetTitle(body))
              /\ wpc' = "done"
              /\ UNCHANGED <<fetchCount, consoleErrors, uncaught>>
    ELSE /\ wpc' = "done"
         /\ UNCHANGED <<chipText, fetchCount, consoleErrors, uncaught>>

\* The fetch promise rejects (network failure): control goes to catch.
FetchRejects ==
    /\ wpc = "awaitFetch"
    /\ resp' = Rejected
    /\ Catch("TypeError: Failed to fetch")
    /\ UNCHANGED <<envVars, loadVars, themeVars, data, chipText, newsVars, effectVars>>

\* The fetch promise resolves with a response, ok or not.
FetchResolves ==
    /\ wpc = "awaitFetch"
    /\ \E ok \in BOOLEAN :
          /\ resp' = Resolved(ok)
          /\ StatusCheck(ok)
    /\ UNCHANGED <<envVars, loadVars, themeVars, data, chipText, newsVars, effectVars>>

\* resp.json() rejects: the body is not JSON.
JsonRejects ==
    /\ wpc = "awaitJson"
    /\ data' = SyntaxError
    /\ Catch("SyntaxError")
    /\ UNCHANGED <<envVars, loadVars, themeVars, resp, chipText, newsVars, effectVars>>

\* resp.json() resolves with the parsed body; the chip is looked up and written.
JsonResolves ==
    /\ wpc = "awaitJson"
    /\ \E body \in Bodies :
          /\ data' = body
          /\ WriteChip(body)
    /\ UNCHANGED <<envVars, loadVars, themeVars, resp, newsVars, effectVars>>

(* ------------------------------------------------------------------ *)
(* News cards (src/app/static/js/news.js)                              *)
(* ------------------------------------------------------------------ *)
\* The statement `w` on line 10: a read of an unbound identifier throws.
StrayIdentifier ==
    IF windowW THEN {} ELSE {"news.js: ReferenceError: w is not defined"}

\* Top level of news.js: register the DOMContentLoaded listener, then `w`.
NewsScript ==
    /\ "news" \notin evaluated
    /\ ~domLoaded
    /\ evaluated' = evaluated \cup {"news"}
    /\ dclListeners' = dclListeners \cup {"news"}
    /\ uncaught' = uncaught \cup StrayIdentifier
    /\ UNCHANGED <<envVars, domLoaded, themeVars, weatherVars, newsVars, effectVars>>

\* document.querySelectorAll(".news-card")
querySelectorAllNewsCard == Cards

\* cards.forEach(card => card.addEventListener("click", ...))
AttachCardHandlers ==
    /\ cardHandlers' = cardHandlers \cup querySelectorAllNewsCard
    /\ UNCHANGED <<cardClicks, openCalls>>

\* if (link) window.open(link);  -- the target argument forgotten
OpenLink_NoTarget(link) ==
    IF Truthy(link) THEN Append(openCalls, <<link, Undefined>>) ELSE openCalls

\* if (link) window.open(link, "_blank");
OpenLink(link) ==
    IF Truthy(link) THEN Append(openCalls, <<link, "_blank">>) ELSE openCalls

\* The click handler of one card.
CardClick(card) ==
    /\ card \in cardHandlers
    /\ Len(cardClicks) < MaxCardClicks
    /\ cardClicks' = Append(cardClicks, card)
    /\ openCalls' = OpenLink(cards[card])
    /\ UNCHANGED <<envVars, loadVars, themeVars, weatherVars, cardHandlers, effectVars, uncaught>>

(* ------------------------------------------------------------------ *)
(* Cursor effect (src/app/static/js/effects.js)                        *)
(* ------------------------------------------------------------------ *)
Px(n) == NatToStr(n) \o "px"

EffectsScript ==
    /\ "effects" \notin evaluated
    /\ ~domLoaded
    /\ evaluated' = evaluated \cup {"effects"}
    /\ moveListener' = TRUE
    /\ UNCHANGED <<envVars, domLoaded, dclListeners, themeVars, weatherVars, newsVars,
                   circleStyle, lastMove, uncaught>>

\* The mousemove handler.
MouseMove ==
    /\ moveListener
    /\ \E p \in Pointers :
          /\ lastMove' = <<p>>
          /\ circleStyle' = IF getElementById("cursor-effect")
                            THEN [left |-> Px(p[1]), top |-> Px(p[2])]
                            ELSE circleStyle
    /\ UNCHANGED <<envVars, loadVars, themeVars, weatherVars, newsVars, moveListener, uncaught>>

(* ------------------------------------------------------------------ *)
(* Page load                                                            *)
(* ------------------------------------------------------------------ *)
\* The browser dispatches DOMContentLoaded once, after the scripts have run;
\* each registered listener runs to completion (loadWeather to its first await).
DOMContentLoaded ==
    /\ ~domLoaded
    /\ evaluated = Scripts
    /\ domLoaded' = TRUE
    /\ IF "loadWeather" \in dclListeners THEN loadWeather ELSE UNCHANGED weatherVars
    /\ IF "news" \in dclListeners THEN AttachCardHandlers ELSE UNCHANGED newsVars
    /\ UNCHANGED <<envVars, evaluated, dclListeners, themeVars, effectVars, uncaught>>

Next ==
    \/ ThemeScript
    \/ WeatherScript
    \/ NewsScript
    \/ EffectsScript
    \/ DOMContentLoaded
    \/ ThemeClick
    \/ FetchRejects
    \/ FetchResolves
    \/ JsonRejects
    \/ JsonResolves
    \/ \E card \in Cards : CardClick(card)
    \/ MouseMove

Spec == Init /\ [][Next]_vars

(* ------------------------------------------------------------------ *)
(* Properties                                                           *)
(* ------------------------------------------------------------------ *)
\* The theme preference a value of the attribute stands for.
Preference(v) == IF v = Undefined \/ v = "" THEN "dark" ELSE v

\* The cookie string the specification gives for a theme value.
CookieFor(value) ==
    CASE value = "dark" -> "theme=dark;path=/;max-age=31536000;Secure;SameSite=Lax"
      [] value = "light" -> "theme=light;path=/;max-age=31536000;Secure;SameSite=Lax"
      [] OTHER -> Undefined

\* C1 as stated: from any starting value of the theme attribute, two
\* consecutive clicks leave the preference equal to its value before the
\* first of them.
C1_AnyStartRestored ==
    \A i \in 1..Len(themeLog) :
        i + 2 <= Len(themeLog) => Preference(themeLog[i + 2]) = Preference(themeLog[i])

\* C1 amended: when the attribute is dark, light, unset or empty (read as
\* dark), two consecutive clicks leave the preference equal to its value
\* before the first of them; from any other value two clicks end at light.
C1_KnownStartRestored ==
    \A i \in 1..Len(themeLog) :
        i + 2 <= Len(themeLog) =>
            IF Preference(themeLog[i]) \in {"dark", "light"}
            THEN Preference(themeLog[i + 2]) = Preference(themeLog[i])
            ELSE themeLog[i + 2] = "light"

C1_Witness ==
    /\ Len(themeLog) = 3
    /\ themeLog[1] = Undefined
    /\ themeAttr = "dark"

\* C2 as stated: no script's top level and no handler ever ends in an
\* uncaught exception.
C2_NothingUncaught == uncaught = {}

\* C3: exactly one request to /api/weather per page load: none before
\* DOMContentLoaded, one from then on, whatever the outcome and whether or
\* not the chip exists.
C3_ExactlyOneRequest == fetchCount = IF domLoaded THEN 1 ELSE 0

C3_Witness ==
    /\ wpc = "done"
    /\ resp = Rejected
    /\ "weather-chip" \notin dom
    /\ fetchCount = 1

\* The ways a weather load fails.
BadStatus == resp = Resolved(FALSE)
NetworkFault == resp = Rejected
ParseFault == data = SyntaxError

\* C4: when the load fails (bad status, fetch rejection, body not JSON) the
\* chip's text after loadWeather completes is what it was before the load and
\* nothing escapes loadWeather; a network or parse fault is logged once, a
\* bad status is not logged.
C4_FailureLeavesChip ==
    (wpc = "done" /\ (BadStatus \/ NetworkFault \/ ParseFault)) =>
        /\ chipText = InitialChipText
        /\ \A e \in uncaught : e = "news.js: ReferenceError: w is not defined"
        /\ BadStatus => consoleErrors = <<>>
        /\ NetworkFault =>
              consoleErrors = << <<"Weather fetch failed:", "TypeError: Failed to fetch">> >>
        /\ ParseFault => consoleErrors = << <<"Weather fetch failed:", "SyntaxError">> >>

C4_Witness ==
    /\ wpc = "done"
    /\ ParseFault
    /\ "weather-chip" \in dom
    /\ Len(consoleErrors) = 1

\* What the theme, cursor and weather components leave untouched when their
\* element is absent.
NothingWritten ==
    /\ "theme-toggle" \notin dom =>
          /\ ~toggleListener
          /\ themeLog = <<themeAttr>>
          /\ cookieWritten = Undefined
    /\ "weather-chip" \notin dom => chipText = InitialChipText
    /\ "cursor-effect" \notin dom => circleStyle = NoStyle

\* C5 as stated: a component whose element is absent does nothing at all: no
\* attribute, cookie, style or text is written and no weather request is made.
C5_AbsentNoEffect ==
    /\ NothingWritten
    /\ "weather-chip" \notin dom => fetchCount = 0 /\ consoleErrors = <<>>

\* C5 amended: a component whose element is absent writes no attribute,
\* cookie, style or text; the weather component still issues its one request
\* at DOMContentLoaded, since it looks the chip up only after the response.
C5_AbsentNoWrite ==
    /\ NothingWritten
    /\ ("weather-chip" \notin dom /\ domLoaded) => fetchCount = 1

C5_Witness ==
    /\ dom = {}
    /\ wpc = "done"
    /\ data \in Bodies
    /\ fetchCount = 1
    /\ lastMove # <<>>

HasUrlAttribute(card) == cards[card] # Undefined
HasNonEmptyUrl(card) == cards[card] # Undefined /\ cards[card] # ""

\* One window.open(url, "_blank") call per click of the sequence, in order.
OpensOf(clicks) == [i \in 1..Len(clicks) |-> <<cards[clicks[i]], "_blank">>]

\* C6 as stated: every click on a card carrying a data-url attribute makes
\* exactly one window.open(url, "_blank") call, a click on a card without it
\* makes none, so the calls are exactly those of the clicks on such cards.
C6_OpenPerAttribute == openCalls = OpensOf(SelectSeq(cardClicks, HasUrlAttribute))

\* C6 amended: every click on a card carrying a non-empty data-url makes
\* exactly one window.open(url, "_blank") call; a click on a card without the
\* attribute, or with an empty one, makes none.
C6_OpenPerNonEmptyUrl == openCalls = OpensOf(SelectSeq(cardClicks, HasNonEmptyUrl))

C6_Witness ==
    /\ cardClicks = <<"card1", "card2">>
    /\ cards["card1"] = "https://example.com"
    /\ cards["card2"] = ""
    /\ openCalls = << <<"https://example.com", "_blank">> >>

\* C7: once the toggle has been clicked, the last string assigned to
\* document.cookie is exactly theme=<value>;path=/;max-age=31536000;Secure;
\* SameSite=Lax for the current value of the theme attribute, which is dark
\* or light.
C7_CookieMirrorsTheme ==
    Len(themeLog) > 1 =>
        /\ themeAttr \in {"dark", "light"}
        /\ cookieWritten = CookieFor(themeAttr)

C7_Witness ==
    /\ Len(themeLog) = 3
    /\ themeLog[1] = "light"
    /\ cookieWritten = "theme=light;path=/;max-age=31536000;Secure;SameSite=Lax"

\* The state each component reaches from its own inputs alone.
ThemeAlone ==
    /\ themeAttr = themeLog[Len(themeLog)]
    /\ \A i \in 2..Len(themeLog) :
          themeLog[i] = IF Preference(themeLog[i - 1]) = "dark" THEN "light" ELSE "dark"
    /\ cookieWritten = IF Len(themeLog) > 1 THEN CookieFor(themeAttr) ELSE Undefined

WeatherAlone ==
    chipText =
        IF wpc = "done" /\ resp = Resolved(TRUE) /\ data \in Bodies
           /\ data # JNull /\ "weather-chip" \in dom
        THEN CASE data = JObj([title |-> JStr("Sunny")]) -> "Sunny"
               [] data = JObj([title |-> JNum(21)]) -> "21"
               [] OTHER -> "undefined"
        ELSE InitialChipText

NewsAlone == openCalls = OpensOf(SelectSeq(cardClicks, HasNonEmptyUrl))

CursorAlone ==
    circleStyle =
        IF lastMove # <<>> /\ "cursor-effect" \in dom
        THEN CASE lastMove[1] = <<120, 340>> -> [left |-> "120px", top |-> "340px"]
               [] lastMove[1] = <<0, 7>> -> [left |-> "0px", top |-> "7px"]
        ELSE NoStyle

InFlight == wpc \in {"awaitFetch", "awaitJson"}

\* C8: while the weather request is in flight the other handlers can still
\* run, and in every interleaving each component's state is what its own
\* inputs alone make it: theme attribute and cookie from the clicks on the
\* toggle, chip text from the response, window.open calls from the card
\* clicks, cursor offsets from the last mousemove.
C8_Independent ==
    /\ ThemeAlone
    /\ WeatherAlone
    /\ NewsAlone
    /\ CursorAlone
    /\ InFlight =>
          /\ (toggleListener /\ Len(themeLog) <= MaxThemeClicks) => ENABLED ThemeClick
          /\ moveListener => ENABLED MouseMove
          /\ \A card \in cardHandlers :
                Len(cardClicks) < MaxCardClicks => ENABLED CardClick(card)

C8_Witness ==
    /\ wpc = "awaitJson"
    /\ Len(themeLog) = 2
    /\ Len(cardClicks) = 1
    /\ Len(openCalls) = 1
    /\ lastMove = << <<120, 340>> >>
    /\ circleStyle = [left |-> "120px", top |-> "340px"]

\* C9: with the theme attribute unset or empty, the first click on the toggle
\* sets it to light.
C9_FirstToggleLight ==
    (Len(themeLog) >= 2 /\ themeLog[1] \in {Undefined, ""}) => themeLog[2] = "light"

C9_Witness ==
    /\ Len(themeLog) = 2
    /\ themeLog[1] = ""
    /\ themeAttr = "light"

\* C10: after an ok response whose body has a title, a chip that exists shows
\* exactly that title (a number in its decimal form); and the chip's text is
\* changed only once the status was found ok and the body was parsed.
C10_TitleShown ==
    /\ (/\ wpc = "done"
        /\ resp = Resolved(TRUE)
        /\ data \in Bodies
        /\ data.kind = "object"
        /\ "title" \in DOMAIN data.fields
        /\ "weather-chip" \in dom) =>
           LET title == data.fields.title
           IN /\ title.kind = "string" => chipText = title.str
              /\ title = JNum(21) => chipText = "21"
    /\ chipText # InitialChipText =>
           /\ wpc = "done"
           /\ resp = Resolved(TRUE)
           /\ data \in Bodies

C10_Witness ==
    /\ wpc = "done"
    /\ data = JObj([title |-> JStr("Sunny")])
    /\ chipText = "Sunny"
====
